---------------------------- MODULE Spec2Model ----------------------------
(***************************************************************************)
(* The PspCoin ledger of src/lib.rs: total_supply, balances, allowances    *)
(* and the messages transfer, transfer_from, approve, increase_allowance,  *)
(* decrease_allowance, mint and burn.  Each message is an operator on the  *)
(* contract storage that returns the storage after the call, the events    *)
(* the call emitted and the value the call returned; one action per        *)
(* message applies it for every caller and every argument.                 *)
(***************************************************************************)
EXTENDS Integers, Sequences, FiniteSets, TLC

\* The largest Amount.  The contract uses U256; the model keeps the checked
\* arithmetic and scales the width down.
U256_MAX == 2

Amounts == 0 .. U256_MAX

\* The largest value of the u128 type that the PSP22Mintable documentation
\* names as the supply cap: below the largest Amount, scaled with it.
U128_MAX == U256_MAX \div 2

\* The number of calls made to the contract after its construction.
MaxCalls == 2

\* H160 account identifiers (the accounts of tests::default_accounts).
Accounts == {"alice", "bob", "charlie"}

Pairs == Accounts \X Accounts

\* data.rs: PSP22Error, and Ok(()).  Panic is the trap of an unchecked U256
\* subtraction that underflows.
Ok == "Ok"
InsufficientBalance == "InsufficientBalance"
InsufficientAllowance == "InsufficientAllowance"
Overflow == "Overflow"
Panic == "Panic"
Custom == "Custom"
Results == {Ok, InsufficientBalance, InsufficientAllowance, Overflow, Custom, Panic}

\* Option::None of an Option<H160> (an event's absent account) and of an
\* Option<U256> (a checked_add that does not fit).
None == "None"
NoneU256 == -1

VARIABLES
    total_supply,   \* PspCoin.total_supply
    balances,       \* PspCoin.balances, read through get(k).unwrap_or(0)
    allowances,     \* PspCoin.allowances, (owner, spender) -> allowance
    events,         \* the events emitted by the last call, in order
    result,         \* the value the last call returned
    call,           \* the last call: message, caller and arguments
    calls           \* the number of calls made since construction

vars == <<total_supply, balances, allowances, events, result, call, calls>>

----------------------------------------------------------------------------
\* Events

Transfer(from, to, value) ==
    [event |-> "Transfer", from |-> from, to |-> to, value |-> value]

Approval(owner, spender, value) ==
    [event |-> "Approval", owner |-> owner, spender |-> spender, value |-> value]

\* self.env().emit_event(e)
emit_event(self, e) == [self EXCEPT !.events = Append(@, e)]

\* U256::checked_add: None when the sum does not fit.
checked_add(a, b) == IF a + b > U256_MAX THEN NoneU256 ELSE a + b

\* A return: the storage as the call leaves it, and the returned value.
Ret(self, res) == [self |-> self, res |-> res]

----------------------------------------------------------------------------
\* Read-only messages

balance_of(self, owner) == self.balances[owner]

allowance(self, owner, spender) == self.allowances[<<owner, spender>>]

----------------------------------------------------------------------------
\* fn transfer_from_to(&mut self, from, to, value)


\* A variant of transfer_from_to with a plausible slip: the value is taken off
\* total_supply too, as in burn.
transfer_from_to_supply_debit(self, from, to, value) ==
    IF from = to \/ value = 0 THEN Ret(self, Ok)
    ELSE
      LET from_balance == self.balances[from] IN
      IF from_balance < value THEN Ret(self, InsufficientBalance)
      ELSE
        LET to_balance == self.balances[to] IN
        IF checked_add(to_balance, value) = NoneU256 THEN Ret(self, Overflow)
        ELSE
          LET s1 == [self EXCEPT !.balances[from] = from_balance - value]
              s2 == [s1 EXCEPT !.balances[to] = to_balance + value]
              s3 == [s2 EXCEPT !.total_supply = self.total_supply - value]
          IN  Ret(emit_event(s3, Transfer(from, to, value)), Ok)

\* Variants of transfer_from_to with a plausible slip, used to show that the
\* properties below depend on it: one forgets to debit the sender, one rejects
\* a transfer of the sender's whole balance.
transfer_from_to_no_debit(self, from, to, value) ==
    IF from = to \/ value = 0 THEN Ret(self, Ok)
    ELSE
      LET from_balance == self.balances[from] IN
      IF from_balance < value THEN Ret(self, InsufficientBalance)
      ELSE
        LET to_balance == self.balances[to] IN
        IF checked_add(to_balance, value) = NoneU256 THEN Ret(self, Overflow)
        ELSE
          LET s2 == [self EXCEPT !.balances[to] = to_balance + value]
          IN  Ret(emit_event(s2, Transfer(from, to, value)), Ok)

transfer_from_to_strict_balance(self, from, to, value) ==
    IF from = to \/ value = 0 THEN Ret(self, Ok)
    ELSE
      LET from_balance == self.balances[from] IN
      IF from_balance <= value THEN Ret(self, InsufficientBalance)
      ELSE
        LET to_balance == self.balances[to] IN
        IF checked_add(to_balance, value) = NoneU256 THEN Ret(self, Overflow)
        ELSE
          LET s1 == [self EXCEPT !.balances[from] = from_balance - value]
              s2 == [s1 EXCEPT !.balances[to] = to_balance + value]
          IN  Ret(emit_event(s2, Transfer(from, to, value)), Ok)

transfer_from_to(self, from, to, value) ==
    IF from = to \/ value = 0 THEN Ret(self, Ok)
    ELSE
      LET from_balance == self.balances[from] IN
      IF from_balance < value THEN Ret(self, InsufficientBalance)
      ELSE
        LET to_balance == self.balances[to] IN
        IF checked_add(to_balance, value) = NoneU256 THEN Ret(self, Overflow)
        ELSE
          LET s1 == [self EXCEPT !.balances[from] = from_balance - value]
              s2 == [s1 EXCEPT !.balances[to] = to_balance + value]
          IN  Ret(emit_event(s2, Transfer(from, to, value)), Ok)

\* pub fn transfer(&mut self, to, value, _data)
transfer(self, caller, to, value) ==
    LET from == caller IN transfer_from_to(self, from, to, value)

\* Variants of transfer_from with a plausible slip: no allowance check at all;
\* the balance checked before the allowance; the Approval carrying the old
\* allowance; the allowance required of the owner too; no early return for
\* from = to or value = 0.
transfer_from_no_allowance_check(self, caller, from, to, value) ==
    IF from = to \/ value = 0 THEN Ret(self, Ok)
    ELSE transfer_from_to(self, from, to, value)

transfer_from_balance_first(self, caller, from, to, value) ==
    IF from = to \/ value = 0 THEN Ret(self, Ok)
    ELSE IF self.balances[from] < value THEN Ret(self, InsufficientBalance)
    ELSE IF caller # from
    THEN
      LET allowance_ == self.allowances[<<from, caller>>] IN
      IF allowance_ < value THEN Ret(self, InsufficientAllowance)
      ELSE
        LET s1 == [self EXCEPT !.allowances[<<from, caller>>] = allowance_ - value]
            s2 == emit_event(s1, Approval(from, caller, allowance_ - value))
        IN  transfer_from_to(s2, from, to, value)
    ELSE transfer_from_to(self, from, to, value)

transfer_from_old_approval(self, caller, from, to, value) ==
    IF from = to \/ value = 0 THEN Ret(self, Ok)
    ELSE IF caller # from
    THEN
      LET allowance_ == self.allowances[<<from, caller>>] IN
      IF allowance_ < value THEN Ret(self, InsufficientAllowance)
      ELSE
        LET s1 == [self EXCEPT !.allowances[<<from, caller>>] = allowance_ - value]
            s2 == emit_event(s1, Approval(from, caller, allowance_))
        IN  transfer_from_to(s2, from, to, value)
    ELSE transfer_from_to(self, from, to, value)

transfer_from_owner_needs_allowance(self, caller, from, to, value) ==
    IF from = to \/ value = 0 THEN Ret(self, Ok)
    ELSE
      LET allowance_ == self.allowances[<<from, caller>>] IN
      IF allowance_ < value THEN Ret(self, InsufficientAllowance)
      ELSE
        LET s1 == [self EXCEPT !.allowances[<<from, caller>>] = allowance_ - value]
            s2 == emit_event(s1, Approval(from, caller, allowance_ - value))
        IN  transfer_from_to(s2, from, to, value)

transfer_from_no_early_return(self, caller, from, to, value) ==
    IF caller # from
    THEN
      LET allowance_ == self.allowances[<<from, caller>>] IN
      IF allowance_ < value THEN Ret(self, InsufficientAllowance)
      ELSE
        LET s1 == [self EXCEPT !.allowances[<<from, caller>>] = allowance_ - value]
            s2 == emit_event(s1, Approval(from, caller, allowance_ - value))
        IN  transfer_from_to(s2, from, to, value)
    ELSE transfer_from_to(self, from, to, value)


\* A variant of transfer_from with a plausible slip: the allowance is checked
\* but never written back.
transfer_from_allowance_kept(self, caller, from, to, value) ==
    IF from = to \/ value = 0 THEN Ret(self, Ok)
    ELSE IF caller # from
    THEN
      LET allowance_ == self.allowances[<<from, caller>>] IN
      IF allowance_ < value THEN Ret(self, InsufficientAllowance)
      ELSE
        LET s2 == emit_event(self, Approval(from, caller, allowance_ - value))
        IN  transfer_from_to(s2, from, to, value)
    ELSE transfer_from_to(self, from, to, value)

\* pub fn transfer_from(&mut self, from, to, value, _data)
transfer_from(self, caller, from, to, value) ==
    IF from = to \/ value = 0 THEN Ret(self, Ok)
    ELSE IF caller # from
    THEN
      LET allowance_ == self.allowances[<<from, caller>>] IN
      IF allowance_ < value THEN Ret(self, InsufficientAllowance)
      ELSE
        LET s1 == [self EXCEPT !.allowances[<<from, caller>>] = allowance_ - value]
            s2 == emit_event(s1, Approval(from, caller, allowance_ - value))
        IN  transfer_from_to(s2, from, to, value)
    ELSE transfer_from_to(self, from, to, value)


\* A variant of approve with a plausible slip: the key written is
\* (spender, owner).
approve_swapped_key(self, caller, spender, value) ==
    LET owner == caller IN
    IF owner = spender THEN Ret(self, Ok)
    ELSE
      LET s1 == [self EXCEPT !.allowances[<<spender, owner>>] = value]
      IN  Ret(emit_event(s1, Approval(owner, spender, value)), Ok)

\* Variants of approve with a plausible slip: no owner = spender test; the
\* value added to the allowance instead of replacing it.
approve_self_allowed(self, caller, spender, value) ==
    LET owner == caller
        s1 == [self EXCEPT !.allowances[<<owner, spender>>] = value]
    IN  Ret(emit_event(s1, Approval(owner, spender, value)), Ok)

approve_additive(self, caller, spender, value) ==
    LET owner == caller IN
    IF owner = spender THEN Ret(self, Ok)
    ELSE
      LET sum == checked_add(self.allowances[<<owner, spender>>], value)
          new_allowance == IF sum = NoneU256 THEN U256_MAX ELSE sum
          s1 == [self EXCEPT !.allowances[<<owner, spender>>] = new_allowance]
      IN  Ret(emit_event(s1, Approval(owner, spender, new_allowance)), Ok)

\* pub fn approve(&mut self, spender, value)
approve(self, caller, spender, value) ==
    LET owner == caller IN
    IF owner = spender THEN Ret(self, Ok)
    ELSE
      LET s1 == [self EXCEPT !.allowances[<<owner, spender>>] = value]
      IN  Ret(emit_event(s1, Approval(owner, spender, value)), Ok)



\* Variants of increase_allowance with a plausible slip: no owner = spender
\* test; the Approval carrying the increase instead of the new allowance.
increase_allowance_self_allowed(self, caller, spender, delta_value) ==
    LET owner == caller IN
    IF delta_value = 0 THEN Ret(self, Ok)
    ELSE
      LET current_allowance == self.allowances[<<owner, spender>>]
          new_allowance == checked_add(current_allowance, delta_value)
      IN  IF new_allowance = NoneU256 THEN Ret(self, Overflow)
          ELSE
            LET s1 == [self EXCEPT !.allowances[<<owner, spender>>] = new_allowance]
            IN  Ret(emit_event(s1, Approval(owner, spender, new_allowance)), Ok)

increase_allowance_delta_event(self, caller, spender, delta_value) ==
    LET owner == caller IN
    IF owner = spender \/ delta_value = 0 THEN Ret(self, Ok)
    ELSE
      LET current_allowance == self.allowances[<<owner, spender>>]
          new_allowance == checked_add(current_allowance, delta_value)
      IN  IF new_allowance = NoneU256 THEN Ret(self, Overflow)
          ELSE
            LET s1 == [self EXCEPT !.allowances[<<owner, spender>>] = new_allowance]
            IN  Ret(emit_event(s1, Approval(owner, spender, delta_value)), Ok)

\* A variant of increase_allowance with a plausible slip: the sum wraps around
\* instead of being checked.
increase_allowance_wrapping(self, caller, spender, delta_value) ==
    LET owner == caller IN
    IF owner = spender \/ delta_value = 0 THEN Ret(self, Ok)
    ELSE
      LET current_allowance == self.allowances[<<owner, spender>>]
          new_allowance == (current_allowance + delta_value) % (U256_MAX + 1)
          s1 == [self EXCEPT !.allowances[<<owner, spender>>] = new_allowance]
      IN  Ret(emit_event(s1, Approval(owner, spender, new_allowance)), Ok)

\* pub fn increase_allowance(&mut self, spender, delta_value)
increase_allowance(self, caller, spender, delta_value) ==
    LET owner == caller IN
    IF owner = spender \/ delta_value = 0 THEN Ret(self, Ok)
    ELSE
      LET current_allowance == self.allowances[<<owner, spender>>]
          new_allowance == checked_add(current_allowance, delta_value)
      IN  IF new_allowance = NoneU256 THEN Ret(self, Overflow)
          ELSE
            LET s1 == [self EXCEPT !.allowances[<<owner, spender>>] = new_allowance]
            IN  Ret(emit_event(s1, Approval(owner, spender, new_allowance)), Ok)


\* A variant of decrease_allowance with a plausible slip: a decrease below zero
\* sets the allowance to zero.
decrease_allowance_clamped(self, caller, spender, delta_value) ==
    LET owner == caller IN
    IF owner = spender \/ delta_value = 0 THEN Ret(self, Ok)
    ELSE
      LET current_allowance == self.allowances[<<owner, spender>>]
          new_allowance == IF current_allowance < delta_value THEN 0
                           ELSE current_allowance - delta_value
          s1 == [self EXCEPT !.allowances[<<owner, spender>>] = new_allowance]
      IN  Ret(emit_event(s1, Approval(owner, spender, new_allowance)), Ok)

\* pub fn decrease_allowance(&mut self, spender, delta_value)
decrease_allowance(self, caller, spender, delta_value) ==
    LET owner == caller IN
    IF owner = spender \/ delta_value = 0 THEN Ret(self, Ok)
    ELSE
      LET current_allowance == self.allowances[<<owner, spender>>] IN
      IF current_allowance < delta_value THEN Ret(self, InsufficientAllowance)
      ELSE
        LET new_allowance == current_allowance - delta_value
            s1 == [self EXCEPT !.allowances[<<owner, spender>>] = new_allowance]
        IN  Ret(emit_event(s1, Approval(owner, spender, new_allowance)), Ok)



\* A variant of mint with a plausible slip: only the balance addition is
\* checked and total_supply wraps around.
mint_supply_wrapping(self, caller, value) ==
    IF value = 0 THEN Ret(self, Ok)
    ELSE
      LET balance == self.balances[caller]
          new_balance == checked_add(balance, value)
      IN  IF new_balance = NoneU256 THEN Ret(self, Overflow)
          ELSE
            LET new_supply == (self.total_supply + value) % (U256_MAX + 1)
                s1 == [self EXCEPT !.balances[caller] = new_balance]
                s2 == [s1 EXCEPT !.total_supply = new_supply]
            IN  Ret(emit_event(s2, Transfer(None, caller, value)), Ok)

\* Variants of mint with a plausible slip: total_supply left as it was; the
\* balance written before the total_supply addition is checked.
mint_no_supply(self, caller, value) ==
    IF value = 0 THEN Ret(self, Ok)
    ELSE
      LET balance == self.balances[caller]
          new_balance == checked_add(balance, value)
          new_supply == checked_add(self.total_supply, value)
      IN  IF new_balance = NoneU256 THEN Ret(self, Overflow)
          ELSE IF new_supply = NoneU256 THEN Ret(self, Overflow)
          ELSE
            LET s1 == [self EXCEPT !.balances[caller] = new_balance]
            IN  Ret(emit_event(s1, Transfer(None, caller, value)), Ok)

mint_partial(self, caller, value) ==
    IF value = 0 THEN Ret(self, Ok)
    ELSE
      LET balance == self.balances[caller]
          new_balance == checked_add(balance, value)
      IN  IF new_balance = NoneU256 THEN Ret(self, Overflow)
          ELSE
            LET s1 == [self EXCEPT !.balances[caller] = new_balance]
                new_supply == checked_add(self.total_supply, value)
            IN  IF new_supply = NoneU256 THEN Ret(s1, Overflow)
                ELSE
                  LET s2 == [s1 EXCEPT !.total_supply = new_supply]
                  IN  Ret(emit_event(s2, Transfer(None, caller, value)), Ok)

\* pub fn mint(&mut self, value)
mint(self, caller, value) ==
    IF value = 0 THEN Ret(self, Ok)
    ELSE
      LET balance == self.balances[caller]
          new_balance == checked_add(balance, value)
          new_supply == checked_add(self.total_supply, value)
      IN  IF new_balance = NoneU256 THEN Ret(self, Overflow)
          ELSE IF new_supply = NoneU256 THEN Ret(self, Overflow)
          ELSE
            LET s1 == [self EXCEPT !.balances[caller] = new_balance]
                s2 == [s1 EXCEPT !.total_supply = new_supply]
            IN  Ret(emit_event(s2, Transfer(None, caller, value)), Ok)


\* Variants of burn with a plausible slip: a burn of more than the balance
\* burns the balance; total_supply left as it was; no test for value = 0.
burn_clamped(self, caller, value) ==
    IF value = 0 THEN Ret(self, Ok)
    ELSE
      LET balance == self.balances[caller]
          burned == IF balance < value THEN balance ELSE value
      IN
      IF self.total_supply < burned THEN Ret(self, Panic)
      ELSE
        LET s1 == [self EXCEPT !.balances[caller] = balance - burned]
            s2 == [s1 EXCEPT !.total_supply = self.total_supply - burned]
        IN  Ret(emit_event(s2, Transfer(caller, None, burned)), Ok)

burn_no_supply(self, caller, value) ==
    IF value = 0 THEN Ret(self, Ok)
    ELSE
      LET balance == self.balances[caller] IN
      IF balance < value THEN Ret(self, InsufficientBalance)
      ELSE
        LET s1 == [self EXCEPT !.balances[caller] = balance - value]
        IN  Ret(emit_event(s1, Transfer(caller, None, value)), Ok)

burn_no_zero_check(self, caller, value) ==
    LET balance == self.balances[caller] IN
    IF balance < value THEN Ret(self, InsufficientBalance)
    ELSE IF self.total_supply < value THEN Ret(self, Panic)
    ELSE
      LET s1 == [self EXCEPT !.balances[caller] = balance - value]
          s2 == [s1 EXCEPT !.total_supply = self.total_supply - value]
      IN  Ret(emit_event(s2, Transfer(caller, None, value)), Ok)

\* pub fn burn(&mut self, value)
burn(self, caller, value) ==
    IF value = 0 THEN Ret(self, Ok)
    ELSE
      LET balance == self.balances[caller] IN
      IF balance < value THEN Ret(self, InsufficientBalance)
      ELSE IF self.total_supply < value THEN Ret(self, Panic)
      ELSE
        LET s1 == [self EXCEPT !.balances[caller] = balance - value]
            s2 == [s1 EXCEPT !.total_supply = self.total_supply - value]
        IN  Ret(emit_event(s2, Transfer(caller, None, value)), Ok)

----------------------------------------------------------------------------
\* Constructors

\* pub fn new() -> Self
new ==
    [total_supply |-> 0,
     balances     |-> [a \in Accounts |-> 0],
     allowances   |-> [p \in Pairs |-> 0],
     events       |-> <<>>]


\* A variant of new_with_supply with a plausible slip: the caller's balance is
\* never written.
new_with_supply_no_balance(caller, supply) ==
    [total_supply |-> supply,
     balances     |-> [a \in Accounts |-> 0],
     allowances   |-> [p \in Pairs |-> 0],
     events       |-> <<>>]

\* pub fn new_with_supply(total_supply) -> Self
new_with_supply(caller, supply) ==
    [total_supply |-> supply,
     balances     |-> [a \in Accounts |-> IF a = caller THEN supply ELSE 0],
     allowances   |-> [p \in Pairs |-> 0],
     events       |-> <<>>]

----------------------------------------------------------------------------
\* The state machine

\* The contract storage at the start of a call; no event emitted yet.
Self ==
    [total_supply |-> total_supply,
     balances     |-> balances,
     allowances   |-> allowances,
     events       |-> <<>>]

Call(op, caller, from, to, value) ==
    [op |-> op, caller |-> caller, from |-> from, to |-> to, value |-> value]

\* The contract is constructed in storage self.
Construct(self, c) ==
    /\ total_supply = self.total_supply
    /\ balances = self.balances
    /\ allowances = self.allowances
    /\ events = self.events
    /\ result = Ok
    /\ call = c
    /\ calls = 0

\* A call returned r: its storage, events and returned value become the state.
Commit(r, c) ==
    /\ calls < MaxCalls
    /\ calls' = calls + 1
    /\ total_supply' = r.self.total_supply
    /\ balances' = r.self.balances
    /\ allowances' = r.self.allowances
    /\ events' = r.self.events
    /\ result' = r.res
    /\ call' = c

Init ==
    \/ Construct(new, Call("new", None, None, None, 0))
    \/ \E caller \in Accounts, supply \in Amounts :
         Construct(new_with_supply(caller, supply),
                   Call("new_with_supply", caller, None, None, supply))

DoTransfer ==
    \E caller \in Accounts, to \in Accounts, value \in Amounts :
      Commit(transfer(Self, caller, to, value),
             Call("transfer", caller, caller, to, value))

DoTransferFrom ==
    \E caller \in Accounts, from \in Accounts, to \in Accounts, value \in Amounts :
      Commit(transfer_from(Self, caller, from, to, value),
             Call("transfer_from", caller, from, to, value))

DoApprove ==
    \E caller \in Accounts, spender \in Accounts, value \in Amounts :
      Commit(approve(Self, caller, spender, value),
             Call("approve", caller, caller, spender, value))

DoIncreaseAllowance ==
    \E caller \in Accounts, spender \in Accounts, delta_value \in Amounts :
      Commit(increase_allowance(Self, caller, spender, delta_value),
             Call("increase_allowance", caller, caller, spender, delta_value))

DoDecreaseAllowance ==
    \E caller \in Accounts, spender \in Accounts, delta_value \in Amounts :
      Commit(decrease_allowance(Self, caller, spender, delta_value),
             Call("decrease_allowance", caller, caller, spender, delta_value))

DoMint ==
    \E caller \in Accounts, value \in Amounts :
      Commit(mint(Self, caller, value), Call("mint", caller, None, caller, value))

DoBurn ==
    \E caller \in Accounts, value \in Amounts :
      Commit(burn(Self, caller, value), Call("burn", caller, caller, None, value))

Next ==
    \/ DoTransfer
    \/ DoTransferFrom
    \/ DoApprove
    \/ DoIncreaseAllowance
    \/ DoDecreaseAllowance
    \/ DoMint
    \/ DoBurn

Spec == Init /\ [][Next]_vars

----------------------------------------------------------------------------
\* Vocabulary of the properties

RECURSIVE SumOver(_, _)
SumOver(f, S) ==
    IF S = {} THEN 0
    ELSE LET k == CHOOSE x \in S : TRUE IN f[k] + SumOver(f, S \ {k})

\* The sum of all account balances.
SumBalances(b) == SumOver(b, Accounts)

\* The step is a call of message op (the primed call is the one just made).
Called(op) == call'.op = op

\* The ledger is left as it was, and the call emitted nothing.
LedgerUnchanged == UNCHANGED <<total_supply, balances, allowances>>
NoEffect == LedgerUnchanged /\ events' = <<>>

----------------------------------------------------------------------------
\* C1 - Conservation: in every reachable state the sum of all balances equals
\* total_supply; a successful transfer or transfer_from leaves the sum
\* unchanged, a successful mint raises it by exactly the minted value and a
\* successful burn lowers it by exactly the burned value.
C1_Conservation ==
    /\ [](SumBalances(balances) = total_supply)
    /\ [][/\ (result' = Ok /\ (Called("transfer") \/ Called("transfer_from")))
               => SumBalances(balances') = SumBalances(balances)
          /\ (result' = Ok /\ Called("mint"))
               => SumBalances(balances') = SumBalances(balances) + call'.value
          /\ (result' = Ok /\ Called("burn"))
               => SumBalances(balances') = SumBalances(balances) - call'.value
          /\ (result' # Ok) => SumBalances(balances') = SumBalances(balances)
         ]_vars

\* A transfer moved tokens that an earlier call brought into supply.
C1_Witness ==
    /\ call.op \in {"transfer", "transfer_from"}
    /\ result = Ok
    /\ events # <<>>
    /\ total_supply > 0
    /\ SumBalances(balances) = total_supply

\* C2 - Error atomicity: a call that returns an error leaves balances,
\* allowances and total_supply as they were and emits no event.
C2_ErrorAtomicity ==
    [][result' # Ok => NoEffect]_vars

\* C3 - Spending authorization: the balance of an account A decreases in a call
\* only if the caller is A (transfer, burn, transfer_from with from = A), or the
\* call is transfer_from(A, to, v) by a caller C # A with allowance(A, C) >= v
\* before the call, and then the decrease is exactly v.
C3_SpendingAuthorization ==
    [][\A A \in Accounts :
         balances'[A] < balances[A] =>
           \/ /\ call'.caller = A
              /\ \/ Called("transfer")
                 \/ Called("burn")
                 \/ Called("transfer_from") /\ call'.from = A
           \/ /\ Called("transfer_from")
              /\ call'.from = A
              /\ call'.caller # A
              /\ allowances[<<A, call'.caller>>] >= call'.value
              /\ balances[A] - balances'[A] = call'.value
      ]_vars

\* A spender other than the owner moved the owner's tokens.
C3_Witness ==
    /\ call.op = "transfer_from"
    /\ call.caller # call.from
    /\ result = Ok
    /\ Len(events) = 2
    /\ events[2] = Transfer(call.from, call.to, call.value)

\* C4 - Allowance precedence: transfer_from(from, to, value) by caller # from
\* with from # to, value > 0 and allowance(from, caller) < value returns
\* InsufficientAllowance whatever from's balance, and changes nothing.
C4_AllowancePrecedence ==
    [][(/\ Called("transfer_from")
        /\ call'.caller # call'.from
        /\ call'.from # call'.to
        /\ call'.value > 0
        /\ allowances[<<call'.from, call'.caller>>] < call'.value)
       => (result' = InsufficientAllowance /\ NoEffect)
      ]_vars

\* Both the allowance and the balance were insufficient.
C4_Witness ==
    /\ call.op = "transfer_from"
    /\ call.caller # call.from
    /\ call.from # call.to
    /\ result = InsufficientAllowance
    /\ allowances[<<call.from, call.caller>>] < call.value
    /\ balances[call.from] < call.value

\* C5 - transfer(to, value) with to # caller and value > 0 returns
\* InsufficientBalance if balance(caller) < value; otherwise it returns Ok,
\* moves exactly value from the caller to to, changes no other balance, no
\* allowance and not total_supply, and emits exactly one
\* Transfer{Some(caller), Some(to), value}.
C5_Transfer ==
    [][(/\ Called("transfer")
        /\ call'.to # call'.caller
        /\ call'.value > 0)
       => IF balances[call'.caller] < call'.value
          THEN result' = InsufficientBalance
          ELSE /\ result' = Ok
               /\ balances' = [balances EXCEPT
                                 ![call'.caller] = balances[call'.caller] - call'.value,
                                 ![call'.to] = balances[call'.to] + call'.value]
               /\ allowances' = allowances
               /\ total_supply' = total_supply
               /\ events' = <<Transfer(call'.caller, call'.to, call'.value)>>
      ]_vars

\* A transfer of part of the caller's balance succeeded.
C5_Witness ==
    /\ call.op = "transfer"
    /\ call.to # call.caller
    /\ call.value > 0
    /\ result = Ok
    /\ balances[call.caller] > 0
    /\ balances[call.to] >= call.value

\* C6 - Delegated transfer success: transfer_from(from, to, value) by
\* caller # from with from # to, value > 0, allowance(from, caller) >= value and
\* balance(from) >= value returns Ok, lowers allowance(from, caller) and
\* balance(from) by exactly value, raises balance(to) by exactly value, changes
\* nothing else, and emits Approval with the new allowance and then
\* Transfer{Some(from), Some(to), value}.
C6_DelegatedTransfer ==
    [][(/\ Called("transfer_from")
        /\ call'.caller # call'.from
        /\ call'.from # call'.to
        /\ call'.value > 0
        /\ allowances[<<call'.from, call'.caller>>] >= call'.value
        /\ balances[call'.from] >= call'.value)
       => /\ result' = Ok
          /\ allowances' = [allowances EXCEPT
                              ![<<call'.from, call'.caller>>] = @ - call'.value]
          /\ balances' = [balances EXCEPT
                            ![call'.from] = balances[call'.from] - call'.value,
                            ![call'.to] = balances[call'.to] + call'.value]
          /\ total_supply' = total_supply
          /\ events' = <<Approval(call'.from, call'.caller,
                                  allowances[<<call'.from, call'.caller>>] - call'.value),
                         Transfer(call'.from, call'.to, call'.value)>>
      ]_vars

\* A spender used part of an allowance: some of it is left.
C6_Witness ==
    /\ call.op = "transfer_from"
    /\ call.caller # call.from
    /\ result = Ok
    /\ Len(events) = 2
    /\ allowances[<<call.from, call.caller>>] > 0
    /\ balances[call.to] >= call.value

\* C7 - Owner transfer_from equals transfer: transfer_from(from = caller, to,
\* value) returns what transfer(to, value) by that caller returns from the same
\* state, leaves the same ledger and emits the same events; it changes no
\* allowance.
C7_OwnerTransferFrom ==
    [][(Called("transfer_from") /\ call'.caller = call'.from)
       => LET r == transfer(Self, call'.caller, call'.to, call'.value) IN
          /\ result' = r.res
          /\ total_supply' = r.self.total_supply
          /\ balances' = r.self.balances
          /\ allowances' = r.self.allowances
          /\ events' = r.self.events
          /\ allowances' = allowances
      ]_vars

\* The owner moved tokens with transfer_from while every allowance was zero.
C7_Witness ==
    /\ call.op = "transfer_from"
    /\ call.caller = call.from
    /\ result = Ok
    /\ events = <<Transfer(call.from, call.to, call.value)>>
    /\ \A p \in Pairs : allowances[p] = 0

\* C8 - Transfer no-op exactness: transfer with to = caller or value = 0, and
\* transfer_from with from = to or value = 0 by any caller, return Ok, change
\* no balance, no allowance and not total_supply, and emit nothing.
C8_TransferNoOp ==
    [][(\/ Called("transfer") /\ (call'.to = call'.caller \/ call'.value = 0)
        \/ Called("transfer_from") /\ (call'.from = call'.to \/ call'.value = 0))
       => (result' = Ok /\ NoEffect)
      ]_vars

\* A transfer_from with from = to and value > 0 by a caller who holds no
\* allowance, from an account that holds less than value.
C8_Witness ==
    /\ call.op = "transfer_from"
    /\ call.from = call.to
    /\ call.caller # call.from
    /\ call.value > 0
    /\ allowances[<<call.from, call.caller>>] = 0
    /\ balances[call.from] < call.value
    /\ result = Ok

\* C9 - Self-approval no-op: approve, increase_allowance and
\* decrease_allowance with spender = caller return Ok for every value, change
\* no allowance nor anything else, and emit nothing.
C9_SelfApprovalNoOp ==
    [][(/\ Called("approve") \/ Called("increase_allowance")
                             \/ Called("decrease_allowance")
        /\ call'.to = call'.caller)
       => (result' = Ok /\ NoEffect)
      ]_vars

\* A self-approval, a self-increase or a self-decrease of a positive value.
C9_Witness ==
    /\ call.op \in {"approve", "increase_allowance", "decrease_allowance"}
    /\ call.to = call.caller
    /\ call.value > 0
    /\ result = Ok
    /\ allowances[<<call.caller, call.caller>>] = 0

\* C10 - Approve is an absolute overwrite that never fails: approve(spender, v)
\* with spender # caller returns Ok and sets allowance(caller, spender) to
\* exactly v whatever it was, changing no other allowance; so a second approve
\* of the pair leaves the second value, and approving the same value twice
\* leaves the ledger as approving it once.
C10_ApproveOverwrite ==
    [][(Called("approve") /\ call'.to # call'.caller)
       => /\ result' = Ok
          /\ allowances' = [allowances EXCEPT
                              ![<<call'.caller, call'.to>>] = call'.value]
          /\ (call.op = "approve" /\ call.caller = call'.caller /\ call.to = call'.to)
               => allowances'[<<call'.caller, call'.to>>] = call'.value
          /\ (call.op = "approve" /\ call.caller = call'.caller /\ call.to = call'.to
                /\ call.value = call'.value)
               => LedgerUnchanged
      ]_vars

\* An approve of another account made as the second call: the pair's allowance
\* is the value just approved.
C10_Witness ==
    /\ call.op = "approve"
    /\ call.to # call.caller
    /\ calls = 2
    /\ result = Ok
    /\ events = <<Approval(call.caller, call.to, call.value)>>
    /\ allowances[<<call.caller, call.to>>] = call.value

C13_BurnRejection ==
    [][(Called("burn") /\ call'.value > balances[call'.caller])
       => (result' = InsufficientBalance /\ NoEffect)
      ]_vars

\* A burn of more than the caller's positive balance was rejected.
C13_Witness ==
    /\ call.op = "burn"
    /\ result = InsufficientBalance
    /\ balances[call.caller] > 0
    /\ call.value > balances[call.caller]
    /\ total_supply >= call.value

\* C14 - Burn success without underflow: in every reachable state no balance
\* exceeds total_supply, so a burn of 0 < value <= balance(caller) never
\* underflows total_supply; it returns Ok, lowers the caller's balance and
\* total_supply by exactly value, changes nothing else, and emits
\* Transfer{Some(caller), None, value}.
C14_BurnSuccess ==
    /\ [](\A a \in Accounts : balances[a] <= total_supply)
    /\ [][(/\ Called("burn")
           /\ call'.value > 0
           /\ call'.value <= balances[call'.caller])
          => /\ total_supply >= call'.value
             /\ result' = Ok
             /\ balances' = [balances EXCEPT
                               ![call'.caller] = balances[call'.caller] - call'.value]
             /\ total_supply' = total_supply - call'.value
             /\ allowances' = allowances
             /\ events' = <<Transfer(call'.caller, None, call'.value)>>
         ]_vars

\* A burn of part of the supply succeeded.
C14_Witness ==
    /\ call.op = "burn"
    /\ call.value > 0
    /\ result = Ok
    /\ events = <<Transfer(call.caller, None, call.value)>>
    /\ total_supply > 0

\* C15 - Decrease is rejected, not clamped: decrease_allowance(spender, delta)
\* with spender # caller and delta > 0 returns InsufficientAllowance when
\* allowance(caller, spender) < delta and leaves the allowance (and everything
\* else) as it was; otherwise it returns Ok, sets the allowance to exactly
\* current - delta and emits Approval with the new value.
C15_DecreaseAllowance ==
    [][(/\ Called("decrease_allowance")
        /\ call'.to # call'.caller
        /\ call'.value > 0)
       => LET current == allowances[<<call'.caller, call'.to>>] IN
          IF current < call'.value
          THEN result' = InsufficientAllowance /\ NoEffect
          ELSE /\ result' = Ok
               /\ allowances' = [allowances EXCEPT
                                   ![<<call'.caller, call'.to>>] = current - call'.value]
               /\ balances' = balances
               /\ total_supply' = total_supply
               /\ events' = <<Approval(call'.caller, call'.to, current - call'.value)>>
      ]_vars

\* A decrease beyond a positive allowance was rejected and the allowance kept.
C15_Witness ==
    /\ call.op = "decrease_allowance"
    /\ call.to # call.caller
    /\ result = InsufficientAllowance
    /\ allowances[<<call.caller, call.to>>] > 0
    /\ call.value > allowances[<<call.caller, call.to>>]

\* C16 - Increase is additive and overflow-checked:
\* increase_allowance(spender, delta) with spender # caller and delta > 0 sets
\* allowance(caller, spender) to exactly current + delta and emits Approval
\* with that value when the sum fits; when it exceeds the largest Amount the
\* call returns Overflow and the allowance keeps its value.
C16_IncreaseAllowance ==
    [][(/\ Called("increase_allowance")
        /\ call'.to # call'.caller
        /\ call'.value > 0)
       => LET current == allowances[<<call'.caller, call'.to>>] IN
          IF current + call'.value > U256_MAX
          THEN result' = Overflow /\ NoEffect
          ELSE /\ result' = Ok
               /\ allowances' = [allowances EXCEPT
                                   ![<<call'.caller, call'.to>>] = current + call'.value]
               /\ balances' = balances
               /\ total_supply' = total_supply
               /\ events' = <<Approval(call'.caller, call'.to, current + call'.value)>>
      ]_vars

\* An increase that does not fit was rejected and the allowance kept.
C16_Witness ==
    /\ call.op = "increase_allowance"
    /\ call.to # call.caller
    /\ result = Overflow
    /\ allowances[<<call.caller, call.to>>] > 0
    /\ allowances[<<call.caller, call.to>>] + call.value > U256_MAX

\* C18 - Total supply changes only through mint and burn: every call of
\* transfer, transfer_from, approve, increase_allowance or decrease_allowance,
\* successful or failed, leaves total_supply as it was.
C18_SupplyFrame ==
    [][call'.op \in {"transfer", "transfer_from", "approve",
                     "increase_allowance", "decrease_allowance"}
       => total_supply' = total_supply
      ]_vars

\* A transfer or transfer_from moved tokens and the supply is still there.
C18_Witness ==
    /\ call.op \in {"transfer", "transfer_from"}
    /\ result = Ok
    /\ call.value > 0
    /\ events # <<>>
    /\ events[Len(events)] = Transfer(call.from, call.to, call.value)
    /\ total_supply >= call.value

\* C19 - Zero-value no-ops: mint(0), burn(0), increase_allowance(spender, 0)
\* and decrease_allowance(spender, 0) return Ok for every caller and spender,
\* change no balance, no allowance and not total_supply, and emit nothing.
C19_ZeroValueNoOp ==
    [][(/\ call'.op \in {"mint", "burn", "increase_allowance", "decrease_allowance"}
        /\ call'.value = 0)
       => (result' = Ok /\ NoEffect)
      ]_vars

\* burn(0) by a caller whose balance is zero.
C19_Witness ==
    /\ call.op = "burn"
    /\ call.value = 0
    /\ balances[call.caller] = 0
    /\ result = Ok
    /\ events = <<>>

\* C20 - Initial state: after new(), total_supply is 0 and every balance and
\* allowance reads 0; after new_with_supply(amount) by caller A, total_supply
\* is amount, balance(A) is amount, every other balance reads 0 and every
\* allowance reads 0.
C20_InitialState ==
    calls = 0 =>
      /\ call.op \in {"new", "new_with_supply"}
      /\ \A p \in Pairs : allowance(Self, p[1], p[2]) = 0
      /\ call.op = "new" =>
           /\ total_supply = 0
           /\ \A a \in Accounts : balance_of(Self, a) = 0
      /\ call.op = "new_with_supply" =>
           /\ total_supply = call.value
           /\ balance_of(Self, call.caller) = call.value
           /\ \A a \in Accounts \ {call.caller} : balance_of(Self, a) = 0

\* The contract was constructed with a positive initial supply.
C20_Witness ==
    /\ calls = 0
    /\ call.op = "new_with_supply"
    /\ call.value > 0
    /\ total_supply = call.value

\* C17 - Bounded delegated spending: for every owner A and spender B # A, a
\* call not made by A leaves allowance(A, B) no higher than it was, and a
\* transfer_from by B lowers it by at least what the call removes from A's
\* balance.  Summed over any sequence of calls in which A makes no call, what
\* B's transfer_from calls remove from A's balance is therefore at most
\* allowance(A, B) at the start of the sequence.
C17_BoundedSpending ==
    [][/\ allowances' # allowances =>
            \A p \in Pairs :
              (p[1] # p[2] /\ call'.caller # p[1]) => allowances'[p] <= allowances[p]
       /\ (Called("transfer_from") /\ call'.caller # call'.from)
            => /\ balances[call'.from] - balances'[call'.from]
                    <= allowances[<<call'.from, call'.caller>>]
                         - allowances'[<<call'.from, call'.caller>>]
               /\ balances[call'.from] - balances'[call'.from]
                    <= allowances[<<call'.from, call'.caller>>]
      ]_vars

\* A spender used up the whole allowance its owner had granted: the owner's
\* balance fell by the value and the allowance is spent.
C17_Witness ==
    /\ call.op = "transfer_from"
    /\ call.caller # call.from
    /\ call.value > 0
    /\ result = Ok
    /\ events = <<Approval(call.from, call.caller, 0),
                  Transfer(call.from, call.to, call.value)>>
    /\ allowances[<<call.from, call.caller>>] = 0

\* C21 - Mint supply cap as documented on the interface: mint(value) returns
\* the Custom error if total_supply increased by value exceeds the largest
\* value of the u128 type.
C21_MintSupplyCap ==
    [][(Called("mint") /\ total_supply + call'.value > U128_MAX)
       => result' = Custom
      ]_vars

\* C22 - The Overflow branch of transfer is unreachable: in every reachable
\* state, for any from # to and value with balance(from) >= value,
\* balance(to) + value does not exceed the largest Amount; so transfer and
\* transfer_from never return Overflow.
C22_TransferNeverOverflows ==
    /\ [](\A from \in Accounts, to \in Accounts :
            from # to => balances[to] + balances[from] <= U256_MAX)
    /\ [][(Called("transfer") \/ Called("transfer_from")) => result' # Overflow]_vars

\* A transfer filled the receiving account up to the largest Amount.
C22_Witness ==
    /\ call.op \in {"transfer", "transfer_from"}
    /\ call.from # call.to
    /\ call.value > 0
    /\ result = Ok
    /\ balances[call.to] = U256_MAX

\* C23 - No self-allowance: in every reachable state allowance(a, a) = 0 for
\* every account a, and no call writes an allowance entry whose owner and
\* spender are the same account (every write of an entry is announced by an
\* Approval for its pair, and no Approval names one account as both).
C23_NoSelfAllowance ==
    /\ \A a \in Accounts : allowance(Self, a, a) = 0
    /\ \A i \in 1 .. Len(events) :
         events[i].event = "Approval" => events[i].owner # events[i].spender

\* An account tried to raise its own allowance while another pair has one.
C23_Witness ==
    /\ call.op = "increase_allowance"
    /\ call.to = call.caller
    /\ call.value > 0
    /\ result = Ok
    /\ allowances[<<call.caller, call.caller>>] = 0
    /\ \E p \in Pairs : allowances[p] > 0

\* C24 - Only the owner raises an allowance: allowance(O, S) rises in a call
\* only if the caller is O and the call is approve or increase_allowance; a
\* call by any other account leaves it as it was or, when it is
\* transfer_from(O, to, v) made by S, lowers it by exactly v.
C24_OnlyOwnerRaises ==
    [][allowances' # allowances =>
         \A p \in Pairs :
           /\ allowances'[p] > allowances[p] =>
                /\ call'.caller = p[1]
                /\ Called("approve") \/ Called("increase_allowance")
           /\ call'.caller # p[1] =>
                \/ allowances'[p] = allowances[p]
                \/ /\ Called("transfer_from")
                   /\ call'.from = p[1]
                   /\ call'.caller = p[2]
                   /\ allowances'[p] = allowances[p] - call'.value
      ]_vars

\* An owner raised a positive allowance with increase_allowance.
C24_Witness ==
    /\ call.op = "increase_allowance"
    /\ call.to # call.caller
    /\ result = Ok
    /\ call.value > 0
    /\ allowances[<<call.caller, call.to>>] > call.value

\* C25 - Approval notifications track the allowance map: no Approval has been
\* emitted and every allowance is 0 after construction; every call that
\* changes an allowance entry emits an Approval for the pair carrying the new
\* absolute value, and every Approval a call emits carries the value the
\* pair's allowance has after the call.  So the most recent Approval of a pair
\* carries its current allowance, and a pair without one has allowance 0.
C25_ApprovalTracksAllowance ==
    /\ [](calls = 0 => (events = <<>> /\ \A p \in Pairs : allowances[p] = 0))
    /\ [][/\ allowances' # allowances =>
               \A p \in Pairs :
                 allowances'[p] # allowances[p] =>
                   \E i \in 1 .. Len(events') :
                     events'[i] = Approval(p[1], p[2], allowances'[p])
          /\ \A i \in 1 .. Len(events') :
               events'[i].event = "Approval" =>
                 events'[i].value = allowances'[<<events'[i].owner, events'[i].spender>>]
         ]_vars

\* A decrease left part of an allowance and announced what is left.
C25_Witness ==
    /\ call.op = "decrease_allowance"
    /\ call.to # call.caller
    /\ call.value > 0
    /\ result = Ok
    /\ allowances[<<call.caller, call.to>>] > 0
    /\ events = <<Approval(call.caller, call.to, allowances[<<call.caller, call.to>>])>>

=============================================================================
